---- MODULE Spec2Model ----
(***************************************************************************)
(* Offline-first synchronisation engine of the shelfie front end:          *)
(*   - useOfflineStore   (store/offlineStore.ts): the persisted queue and  *)
(*     the sync state,                                                     *)
(*   - OnlineFirstService (services/onlineFirstService.ts): the router     *)
(*     that tries the remote API first and falls back to the local store,  *)
(*   - SyncService       (services/syncService.ts): the reconciliation     *)
(*     loop (performSync) and its triggers.                                *)
(* JavaScript runs every handler to completion up to its next await; the   *)
(* model takes one step per store mutation inside performSync and blocks   *)
(* every other handler while performSync is between two awaits.            *)
(***************************************************************************)
EXTENDS Integers, Sequences, FiniteSets, TLC

\* ---------------------------------------------------------------- bounds
\* Operations ever placed in the queue (ids 1..MaxOps).
MaxOps == 2
\* Invocations of performSync that may be in flight at once.
MaxPasses == 2
\* Entity instance identifiers the stores can hold.
MaxKey == 1
\* Scheduled, not yet fired, setTimeout callbacks of each kind.
MaxPending == 1
\* The clock is read at most this many ticks after the start.
MaxClock == 2
\* A crash is looked at only while no retry counter is above this.
MaxRetryCount == 2

\* ------------------------------------------------------ program constants
\* maxRetries of every operation the router enqueues.
RouterMaxRetries == 5
\* maxRetries when the caller of addToQueue gives none (or 0).
DefaultMaxRetries == 3

Entities == {"product", "user", "order", "supplier", "movement"}
Types == {"CREATE", "UPDATE", "DELETE"}
Keys == 1 .. MaxKey
\* data.id of a payload that has no id field (undefined).
NoKey == 0
\* lastSyncAttempt before the first pass (null in the store).
NoAttempt == -1

VARIABLES
  \* useOfflineStore
  isOnline, syncQueue, isSyncing, syncErrors, lastSyncAttempt,
  \* SyncService
  syncInterval, isInitialized, pendingEvents, pendingTimeouts, pass,
  \* the interval timers the platform holds for the service
  timers,
  \* environment: navigator.onLine, Local Data Store, Remote Data Service,
  \* whether the remote host can be reached, the clock Date.now() reads
  navOnline, localData, remoteData, reachable, now,
  \* history: ids handed out, what each removal rested on, the events of the
  \* running pass, the last call of a caller or trigger and how it ended
  nextId, removed, accepted, exhausted, log, lastCall

storeVars == <<isOnline, syncQueue, isSyncing, syncErrors, lastSyncAttempt>>
serviceVars ==
  <<syncInterval, isInitialized, pendingEvents, pendingTimeouts, pass, timers>>
envVars == <<navOnline, localData, remoteData, reachable, now>>
histVars == <<nextId, removed, accepted, exhausted, log, lastCall>>
vars == <<storeVars, serviceVars, envVars, histVars>>

\* ------------------------------------------------------------- sequences
QueueIds(q) == {q[i].id : i \in 1 .. Len(q)}

\* ------------------------------------------------------- useOfflineStore
\* addToQueue: retryCount 0, maxRetries defaulted, appended at the tail.
NewOperation(operation, id) ==
  [id |-> id, timestamp |-> now, type |-> operation.type,
   entity |-> operation.entity, key |-> operation.key,
   wrapped |-> operation.wrapped, retryCount |-> 0,
   maxRetries |-> IF operation.maxRetries = 0 THEN DefaultMaxRetries
                  ELSE operation.maxRetries]

\* Variant: the new operation is put at the head.
addToQueue_prepend(q, operation, id) == <<NewOperation(operation, id)>> \o q

addToQueue(q, operation, id) == Append(q, NewOperation(operation, id))

\* Variant: the filter keeps every operation.
removeFromQueue_keep(q, operationId) == q

\* Variant: a slice up to the matching operation instead of a filter.
removeFromQueue_truncate(q, operationId) ==
  IF \E i \in 1 .. Len(q) : q[i].id = operationId
  THEN SubSeq(q, 1, (CHOOSE i \in 1 .. Len(q) : q[i].id = operationId) - 1)
  ELSE q

RECURSIVE removeFromQueue(_, _)
removeFromQueue(q, operationId) ==
  IF q = <<>> THEN <<>>
  ELSE IF Head(q).id # operationId
       THEN <<Head(q)>> \o removeFromQueue(Tail(q), operationId)
       ELSE removeFromQueue(Tail(q), operationId)

\* Variant: the matching operation is taken out and put back at the tail.
incrementRetryCount_requeue(q, operationId) ==
  removeFromQueue(q, operationId) \o
  [i \in 1 .. Cardinality({j \in 1 .. Len(q) : q[j].id = operationId}) |->
     LET o == q[CHOOSE j \in 1 .. Len(q) : q[j].id = operationId]
     IN [o EXCEPT !.retryCount = o.retryCount + 1]]

incrementRetryCount(q, operationId) ==
  [i \in 1 .. Len(q) |->
     IF q[i].id = operationId
     THEN [q[i] EXCEPT !.retryCount = q[i].retryCount + 1]
     ELSE q[i]]

addSyncError(errs, error) == Append(errs, error)

\* Variant: the list is left as it is.
clearSyncErrors_keep(errs) == errs

clearSyncErrors(errs) == <<>>

\* ---------------------------------------------------- OnlineFirstService
\* The router verbs: the generic operation each one calls, the collection it
\* addresses, what the addressed command does to that collection and the
\* operationType string, split at "_".
RouterVerbs ==
  { [name |-> "products.create", call |-> "create", entity |-> "product",
     effect |-> "add", operationType |-> <<"product", "create">>],
    [name |-> "products.update", call |-> "update", entity |-> "product",
     effect |-> "none", operationType |-> <<"product", "update">>],
    [name |-> "products.delete", call |-> "delete", entity |-> "product",
     effect |-> "remove", operationType |-> <<"product", "delete">>],
    [name |-> "products.updateStock", call |-> "update", entity |-> "product",
     effect |-> "none", operationType |-> <<"product", "stock", "update">>],
    [name |-> "users.create", call |-> "create", entity |-> "user",
     effect |-> "add", operationType |-> <<"user", "create">>],
    [name |-> "users.update", call |-> "update", entity |-> "user",
     effect |-> "none", operationType |-> <<"user", "update">>],
    [name |-> "users.delete", call |-> "delete", entity |-> "user",
     effect |-> "remove", operationType |-> <<"user", "delete">>],
    [name |-> "orders.create", call |-> "create", entity |-> "order",
     effect |-> "add", operationType |-> <<"order", "create">>],
    [name |-> "orders.update", call |-> "update", entity |-> "order",
     effect |-> "none", operationType |-> <<"order", "update">>],
    [name |-> "orders.complete", call |-> "create", entity |-> "order",
     effect |-> "none", operationType |-> <<"order", "complete">>],
    [name |-> "orders.cancel", call |-> "create", entity |-> "order",
     effect |-> "none", operationType |-> <<"order", "cancel">>],
    [name |-> "orders.refund", call |-> "create", entity |-> "order",
     effect |-> "none", operationType |-> <<"order", "refund">>],
    [name |-> "salesReports.generateSalesReport", call |-> "create",
     entity |-> "sales", effect |-> "none",
     operationType |-> <<"sales", "report">>],
    [name |-> "suppliers.create", call |-> "create", entity |-> "supplier",
     effect |-> "add", operationType |-> <<"supplier", "create">>],
    [name |-> "suppliers.update", call |-> "update", entity |-> "supplier",
     effect |-> "none", operationType |-> <<"supplier", "update">>],
    [name |-> "suppliers.delete", call |-> "delete", entity |-> "supplier",
     effect |-> "remove", operationType |-> <<"supplier", "delete">>] }

Verb(name) == CHOOSE v \in RouterVerbs : v.name = name

\* String.toUpperCase on the second word of an operationType.
ToUpperCase(w) ==
  CASE w = "create" -> "CREATE" [] w = "update" -> "UPDATE"
    [] w = "delete" -> "DELETE" [] w = "stock" -> "STOCK"
    [] w = "complete" -> "COMPLETE" [] w = "cancel" -> "CANCEL"
    [] w = "refund" -> "REFUND" [] w = "report" -> "REPORT"

\* entityMap[entity] || entity
entityMap(w) == w

\* typeMap[type] || type.toUpperCase()
typeMap(w) ==
  CASE w = "create" -> "CREATE" [] w = "update" -> "UPDATE"
    [] w = "delete" -> "DELETE" [] OTHER -> ToUpperCase(w)

\* addToSyncQueue: what the router hands to addToQueue. The payload is stored
\* under data.payload, so data.id of the queued operation is undefined.
addToSyncQueue(operationType, key) ==
  [entity |-> entityMap(operationType[1]), type |-> typeMap(operationType[2]),
   key |-> key, wrapped |-> TRUE, maxRetries |-> RouterMaxRetries]

\* A collection after the addressed command ran on it.
Apply(data, effect, entity, key) ==
  CASE effect = "add" -> data \cup {<<entity, key>>}
    [] effect = "remove" -> data \ {<<entity, key>>}
    [] OTHER -> data

\* Identifiers a store may assign to a new record of the entity.
FreshKeys(data, entity) == {k \in Keys : <<entity, k>> \notin data}

\* updateLocalData only logs: the local store is left as it is.
updateLocalData(local, result) == local

\* Variant: the local command runs and nothing is enqueued.
OfflineAndQueue_noEnqueue(v, key, why, remote, local) ==
  { [path |-> "fallback", why |-> why, raised |-> "local", remote |-> remote,
     local |-> local, enq |-> <<>>, remoteAccepted |-> FALSE,
     result |-> NoKey] }
  \cup
  { [path |-> "fallback", why |-> why, raised |-> "none", remote |-> remote,
     local |-> Apply(local, v.effect, v.entity, lk), enq |-> <<>>,
     remoteAccepted |-> FALSE, result |-> lk] :
    lk \in IF v.effect = "add" THEN FreshKeys(local, v.entity) ELSE {key} }

\* Variant: the operation is enqueued before the local command runs, so it
\* stays queued when the command fails.
OfflineAndQueue_enqueueFirst(v, key, why, remote, local) ==
  { [path |-> "fallback", why |-> why, raised |-> "local", remote |-> remote,
     local |-> local, enq |-> <<addToSyncQueue(v.operationType, key)>>,
     remoteAccepted |-> FALSE, result |-> NoKey] }
  \cup
  { [path |-> "fallback", why |-> why, raised |-> "none", remote |-> remote,
     local |-> Apply(local, v.effect, v.entity, lk),
     enq |-> <<addToSyncQueue(v.operationType, key)>>,
     remoteAccepted |-> FALSE, result |-> lk] :
    lk \in IF v.effect = "add" THEN FreshKeys(local, v.entity) ELSE {key} }

\* createOfflineAndQueue / updateOfflineAndQueue / deleteOfflineAndQueue: the
\* local command first; the enqueue only when it returned.
OfflineAndQueue(v, key, why, remote, local) ==
  { [path |-> "fallback", why |-> why, raised |-> "local", remote |-> remote,
     local |-> local, enq |-> <<>>, remoteAccepted |-> FALSE,
     result |-> NoKey] }
  \cup
  { [path |-> "fallback", why |-> why, raised |-> "none", remote |-> remote,
     local |-> Apply(local, v.effect, v.entity, lk),
     enq |-> <<addToSyncQueue(v.operationType, key)>>,
     remoteAccepted |-> FALSE, result |-> lk] :
    lk \in IF v.effect = "add" THEN FreshKeys(local, v.entity) ELSE {key} }

\* The remote request of create / update / delete answered with success.
RemoteSucceeded(v, key, remote, local) ==
  IF v.call = "delete"
  THEN \* the local command follows inside the try: its failure is rethrown
    { [path |-> "remote", why |-> "-", raised |-> "local",
       remote |-> Apply(remote, v.effect, v.entity, key), local |-> local,
       enq |-> <<>>, remoteAccepted |-> TRUE, result |-> NoKey],
      [path |-> "remote", why |-> "-", raised |-> "none",
       remote |-> Apply(remote, v.effect, v.entity, key),
       local |-> Apply(local, v.effect, v.entity, key),
       enq |-> <<>>, remoteAccepted |-> TRUE, result |-> key] }
  ELSE
    { [path |-> "remote", why |-> "-", raised |-> "none",
       remote |-> Apply(remote, v.effect, v.entity, sk),
       local |-> updateLocalData(local, sk),
       enq |-> <<>>, remoteAccepted |-> TRUE, result |-> sk] :
      sk \in IF v.effect = "add" THEN FreshKeys(remote, v.entity) ELSE {key} }

\* handleError + isNetworkError: an error without a response (or with one of
\* the connection codes) is a NetworkError, any other an ApiError.
ErrorKinds == {"noResponse", "timeout", "http401", "http404", "http500"}
\* Variant: a 5xx answer is taken for a network error.
handleError_serverErrorIsNetwork(error) ==
  IF error \in {"noResponse", "timeout", "http500"} THEN "NetworkError"
  ELSE "ApiError"

handleError(error) ==
  IF error \in {"noResponse", "timeout"} THEN "NetworkError" ELSE "ApiError"

isNetworkError(error) == handleError(error) = "NetworkError"

\* create / update / delete of the router: every outcome the call can have
\* when navigator.onLine is nav. probe is checkConnectivity's answer, answer
\* the remote's ("ok" or an error kind).
RouterMutate(v, key, nav, remote, local) ==
  UNION { IF ~(nav /\ probe)
          THEN OfflineAndQueue(v, key, "offline", remote, local)
          ELSE IF answer = "ok"
          THEN RemoteSucceeded(v, key, remote, local)
          ELSE IF isNetworkError(answer)
          THEN OfflineAndQueue(v, key, answer, remote, local)
          ELSE { [path |-> "remote", why |-> answer, raised |-> "api",
                  remote |-> remote, local |-> local, enq |-> <<>>,
                  remoteAccepted |-> FALSE, result |-> NoKey] } :
          probe \in BOOLEAN, answer \in {"ok"} \cup ErrorKinds }

\* The local command of a read: it throws, or returns what the local store
\* holds.
LocalRead(why, local) ==
  { [path |-> "fallback", why |-> why, raised |-> "local", from |-> "-",
     value |-> {}],
    [path |-> "fallback", why |-> why, raised |-> "none", from |-> "local",
     value |-> local] }

\* Variant: a successful remote read answers from the local copy.
RouterGet_cacheFirst(nav, remote, local) ==
  UNION { IF ~(nav /\ probe)
          THEN LocalRead("offline", local)
          ELSE IF answer = "ok"
          THEN { [path |-> "remote", why |-> "-", raised |-> "none",
                  from |-> "remote", value |-> local] }
          ELSE IF isNetworkError(answer)
          THEN LocalRead(answer, local)
          ELSE { [path |-> "remote", why |-> answer, raised |-> "api",
                  from |-> "-", value |-> {}] } :
          probe \in BOOLEAN, answer \in {"ok"} \cup ErrorKinds }

\* get of the router: no store is changed (updateLocalData only logs); the
\* value comes from the remote, or from the local command after a network
\* error or when offline.
RouterGet(nav, remote, local) ==
  UNION { IF ~(nav /\ probe)
          THEN LocalRead("offline", local)
          ELSE IF answer = "ok"
          THEN { [path |-> "remote", why |-> "-", raised |-> "none",
                  from |-> "remote", value |-> remote] }
          ELSE IF isNetworkError(answer)
          THEN LocalRead(answer, local)
          ELSE { [path |-> "remote", why |-> answer, raised |-> "api",
                  from |-> "-", value |-> {}] } :
          probe \in BOOLEAN, answer \in {"ok"} \cup ErrorKinds }

\* ------------------------------------------------------------ SyncService
\* data.id of a queued operation: undefined when the router wrapped the
\* payload as {endpoint, method, payload}.
DataId(op) == IF op.wrapped THEN NoKey ELSE op.key

\* A replay that went through one router call; result is what the call
\* returned, refused says that the remote did not accept the request (it was
\* not reached, or it answered with an error).
ViaRouter(name, key, nav, remote, local) ==
  { [ok |-> r.raised = "none", remote |-> r.remote, local |-> r.local,
     enq |-> r.enq, remoteAccepted |-> r.remoteAccepted /\ r.raised = "none",
     result |-> r.result, refused |-> ~r.remoteAccepted] :
    r \in RouterMutate(Verb(name), key, nav, remote, local) }

\* A replay that only runs a local command through secureInvoke.
LocalOnly(effect, entity, key, remote, local) ==
  { [ok |-> FALSE, remote |-> remote, local |-> local, enq |-> <<>>,
     remoteAccepted |-> FALSE, result |-> NoKey, refused |-> FALSE],
    [ok |-> TRUE, remote |-> remote,
     local |-> Apply(local, effect, entity, key), enq |-> <<>>,
     remoteAccepted |-> FALSE, result |-> key, refused |-> FALSE] }

Resolved(remote, local) ==
  { [ok |-> TRUE, remote |-> remote, local |-> local, enq |-> <<>>,
     remoteAccepted |-> FALSE, result |-> NoKey, refused |-> FALSE] }

Rejected(remote, local) ==
  { [ok |-> FALSE, remote |-> remote, local |-> local, enq |-> <<>>,
     remoteAccepted |-> FALSE, result |-> NoKey, refused |-> FALSE] }

syncProduct(op, nav, remote, local) ==
  CASE op.type = "CREATE" -> ViaRouter("products.create", DataId(op), nav, remote, local)
    [] op.type = "UPDATE" -> ViaRouter("products.update", DataId(op), nav, remote, local)
    [] op.type = "DELETE" -> ViaRouter("products.delete", DataId(op), nav, remote, local)
    [] OTHER -> Resolved(remote, local)

\* userService.createUser catches every error of the router call and creates
\* the user locally; updateUser and deleteUser are local commands only.
syncUser(op, nav, remote, local) ==
  CASE op.type = "CREATE" ->
         UNION { IF r.ok THEN {r}
                 ELSE { [ok |-> l.ok, remote |-> l.remote, local |-> l.local,
                         enq |-> r.enq, remoteAccepted |-> FALSE,
                         result |-> l.result, refused |-> r.refused] :
                        l \in Rejected(r.remote, r.local) \cup
                              UNION { LocalOnly("add", "user", lk, r.remote, r.local) :
                                      lk \in FreshKeys(r.local, "user") } } :
                 r \in ViaRouter("users.create", DataId(op), nav, remote, local) }
    [] op.type = "UPDATE" -> LocalOnly("none", "user", DataId(op), remote, local)
    [] op.type = "DELETE" -> LocalOnly("remove", "user", DataId(op), remote, local)
    [] OTHER -> Resolved(remote, local)

\* CREATE: posService.createOrder, then posService.completeOrder(order.id) on
\* the order it returned; DELETE: posService.cancelOrder; UPDATE: nothing.
syncOrder(op, nav, remote, local) ==
  CASE op.type = "CREATE" ->
         UNION { IF ~r1.ok THEN {r1}
                 ELSE { [ok |-> r2.ok, remote |-> r2.remote, local |-> r2.local,
                         enq |-> r1.enq \o r2.enq,
                         remoteAccepted |-> r1.remoteAccepted /\ r2.remoteAccepted,
                         result |-> r2.result,
                         refused |-> r1.refused \/ r2.refused] :
                        r2 \in ViaRouter("orders.complete", r1.result, nav,
                                         r1.remote, r1.local) } :
                 r1 \in ViaRouter("orders.create", DataId(op), nav, remote, local) }
    [] op.type = "UPDATE" -> Resolved(remote, local)
    [] op.type = "DELETE" -> ViaRouter("orders.cancel", DataId(op), nav, remote, local)
    [] OTHER -> Resolved(remote, local)

syncSupplier(op, nav, remote, local) ==
  CASE op.type = "CREATE" -> ViaRouter("suppliers.create", DataId(op), nav, remote, local)
    [] op.type = "UPDATE" -> ViaRouter("suppliers.update", DataId(op), nav, remote, local)
    [] op.type = "DELETE" -> ViaRouter("suppliers.delete", DataId(op), nav, remote, local)
    [] OTHER -> Resolved(remote, local)

\* processOperation: every way the replay of op can end.
processOperation(op, nav, remote, local) ==
  CASE op.entity = "product" -> syncProduct(op, nav, remote, local)
    [] op.entity = "user" -> syncUser(op, nav, remote, local)
    [] op.entity = "order" -> syncOrder(op, nav, remote, local)
    [] op.entity = "supplier" -> syncSupplier(op, nav, remote, local)
    [] OTHER -> Rejected(remote, local)

\* --------------------------------------------------------------- the state
IdlePass == [pc |-> "idle", ops |-> <<>>, idx |-> 0]
NoCall == [name |-> "-", key |-> NoKey, path |-> "-", why |-> "-",
           raised |-> "-", result |-> NoKey]

\* performSync is between two awaits: no other handler can run.
Quiescent == \A p \in 1 .. MaxPasses : pass[p].pc \in {"idle", "await"}

\* What callers pass to queueOperation, and the router verbs callers use.
QueueTemplates ==
  { [entity |-> "movement", type |-> "CREATE", key |-> 1, wrapped |-> FALSE,
     maxRetries |-> 1],
    [entity |-> "order", type |-> "UPDATE", key |-> 1, wrapped |-> FALSE,
     maxRetries |-> 0],
    [entity |-> "order", type |-> "CREATE", key |-> 1, wrapped |-> FALSE,
     maxRetries |-> 1],
    [entity |-> "order", type |-> "DELETE", key |-> 1, wrapped |-> FALSE,
     maxRetries |-> 1] }
CallerVerbs == {"products.create"}
\* The router verbs of the specification of the router alone.
RouterSpecVerbs == {"products.create", "products.update", "products.delete"}
\* What callers of the trigger specification pass to queueOperation.
TriggerTemplates ==
  { [entity |-> "user", type |-> "UPDATE", key |-> 1, wrapped |-> FALSE,
     maxRetries |-> 1],
    [entity |-> "order", type |-> "DELETE", key |-> 1, wrapped |-> FALSE,
     maxRetries |-> 1] }
\* The id argument of a verb: the create verbs take none.
IdArgs(name) == IF Verb(name).effect = "add" THEN {NoKey} ELSE Keys

Init ==
  /\ now = 0
  /\ navOnline \in BOOLEAN
  /\ isOnline = navOnline
  /\ syncQueue = <<>>
  /\ isSyncing = FALSE
  /\ lastSyncAttempt = NoAttempt
  /\ syncErrors = <<>>
  /\ syncInterval = FALSE
  /\ timers = 0
  /\ isInitialized = FALSE
  /\ pendingEvents = 0
  /\ pendingTimeouts = 0
  /\ pass = [p \in 1 .. MaxPasses |-> IdlePass]
  /\ localData = {}
  /\ remoteData = {}
  /\ reachable = TRUE
  /\ nextId = 1
  /\ removed = {}
  /\ accepted = {}
  /\ exhausted = {}
  /\ log = <<>>
  /\ lastCall = NoCall

\* The ids a sequence of new operations gets, in order.
RECURSIVE Enqueue(_, _, _)
Enqueue(q, templates, first) ==
  IF templates = <<>> THEN q
  ELSE Enqueue(addToQueue(q, Head(templates), first), Tail(templates), first + 1)

\* ---------------------------------------------------------- performSync
\* Variant: the guard does not look at the queue length.
CanStart_noQueueCheck(online, syncing, q) == online /\ ~syncing

\* Variant: the guard does not look at isSyncing.
CanStart_noSyncingCheck(online, syncing, q) == online /\ Len(q) > 0

\* The guard of performSync, on the store state it reads.
CanStart(online, syncing, q) == online /\ ~syncing /\ Len(q) > 0

FreeSlots == {p \in 1 .. MaxPasses : pass[p].pc = "idle"}

\* performSync called with the store's isOnline being online: either the
\* early return, or setSyncing(true) with the queue copied.
performSync(online) ==
  IF CanStart(online, isSyncing, syncQueue) /\ FreeSlots # {}
  THEN /\ isSyncing' = TRUE
       /\ lastSyncAttempt' = now
       /\ pass' = [pass EXCEPT ![CHOOSE p \in FreeSlots : \A o \in FreeSlots : p <= o] =
                     [pc |-> "clear", ops |-> syncQueue, idx |-> 0]]
       /\ log' = log
       /\ lastCall' = [NoCall EXCEPT !.name = "performSync", !.path = "started"]
  ELSE /\ UNCHANGED <<isSyncing, lastSyncAttempt, pass, log>>
       /\ lastCall' = [NoCall EXCEPT !.name = "performSync", !.path = "returned"]

\* clearSyncErrors, then the loop is entered.
ClearErrors(p) ==
  /\ pass[p].pc = "clear"
  /\ syncErrors' = clearSyncErrors(syncErrors)
  /\ pass' = [pass EXCEPT ![p].pc = "next", ![p].idx = 1]
  /\ UNCHANGED <<isOnline, syncQueue, isSyncing, lastSyncAttempt, syncInterval,
                 timers, isInitialized, pendingEvents, pendingTimeouts,
                 envVars, nextId, removed, accepted, exhausted, log>>
  /\ lastCall' = NoCall

\* The loop head: processOperation is called for the next operation of the
\* copy.
BeginReplay(p) ==
  /\ pass[p].pc = "next"
  /\ pass[p].idx <= Len(pass[p].ops)
  /\ pass' = [pass EXCEPT ![p].pc = "await"]
  /\ log' = Append(log, <<"begin", pass[p].ops[pass[p].idx].id>>)
  /\ UNCHANGED <<storeVars, syncInterval, timers, isInitialized, pendingEvents,
                 pendingTimeouts, envVars, nextId, removed, accepted,
                 exhausted>>
  /\ lastCall' = NoCall

\* Variant: the loop is over and isSyncing is left as it is.
EndPass_keepSyncing(p) ==
  /\ pass[p].pc = "next"
  /\ pass[p].idx > Len(pass[p].ops)
  /\ pass' = [pass EXCEPT ![p] = IdlePass]
  /\ log' = <<>>
  /\ UNCHANGED <<storeVars, syncInterval, timers, isInitialized, pendingEvents,
                 pendingTimeouts, envVars, nextId, removed, accepted,
                 exhausted>>
  /\ lastCall' = NoCall

\* The loop is over: setSyncing(false).
EndPass(p) ==
  /\ pass[p].pc = "next"
  /\ pass[p].idx > Len(pass[p].ops)
  /\ isSyncing' = FALSE
  /\ lastSyncAttempt' = lastSyncAttempt
  /\ pass' = [pass EXCEPT ![p] = IdlePass]
  /\ log' = <<>>
  /\ UNCHANGED <<isOnline, syncQueue, syncErrors, syncInterval, timers,
                 isInitialized, pendingEvents, pendingTimeouts, envVars,
                 nextId, removed, accepted, exhausted>>
  /\ lastCall' = NoCall

\* Every way the replay the pass is waiting for can end.
Replays(p) ==
  processOperation(pass[p].ops[pass[p].idx], navOnline, remoteData, localData)

\* processOperation resolved, in one of the ways of R: removeFromQueue.
ReplaySucceededWith(p, R) ==
  /\ pass[p].pc = "await"
  /\ LET op == pass[p].ops[pass[p].idx] IN
     \E r \in R :
       /\ r.ok
       /\ nextId + Len(r.enq) <= MaxOps + 1
       /\ syncQueue' = removeFromQueue(Enqueue(syncQueue, r.enq, nextId), op.id)
       /\ nextId' = nextId + Len(r.enq)
       /\ remoteData' = r.remote
       /\ localData' = r.local
       /\ removed' = removed \cup {op.id}
       /\ accepted' = IF r.remoteAccepted THEN accepted \cup {op.id} ELSE accepted
       /\ log' = Append(log, <<"end", op.id>>)
  /\ pass' = [pass EXCEPT ![p].pc = "next", ![p].idx = pass[p].idx + 1]
  /\ UNCHANGED <<isOnline, isSyncing, lastSyncAttempt, syncErrors,
                 syncInterval, timers, isInitialized, pendingEvents,
                 pendingTimeouts, navOnline, reachable, now, exhausted>>
  /\ lastCall' = NoCall

ReplaySucceeded(p) == pass[p].pc = "await" /\ ReplaySucceededWith(p, Replays(p))

\* Variant: the failure is not caught; the pass ends where it is.
ReplayFailedWith_uncaught(p, R) ==
  /\ pass[p].pc = "await"
  /\ \E r \in R : ~r.ok
  /\ pass' = [pass EXCEPT ![p] = IdlePass]
  /\ log' = <<>>
  /\ UNCHANGED <<storeVars, syncInterval, timers, isInitialized, pendingEvents,
                 pendingTimeouts, envVars, nextId, removed, accepted,
                 exhausted>>
  /\ lastCall' = NoCall

\* processOperation threw, in one of the ways of R: incrementRetryCount.
ReplayFailedWith(p, R) ==
  /\ pass[p].pc = "await"
  /\ LET op == pass[p].ops[pass[p].idx] IN
     \E r \in R :
       /\ ~r.ok
       /\ nextId + Len(r.enq) <= MaxOps + 1
       /\ syncQueue' = incrementRetryCount(Enqueue(syncQueue, r.enq, nextId), op.id)
       /\ nextId' = nextId + Len(r.enq)
       /\ remoteData' = r.remote
       /\ localData' = r.local
       /\ log' = Append(log, <<"end", op.id>>)
  /\ pass' = [pass EXCEPT ![p].pc = "catch"]
  /\ UNCHANGED <<isOnline, isSyncing, lastSyncAttempt, syncErrors,
                 syncInterval, timers, isInitialized, pendingEvents,
                 pendingTimeouts, navOnline, reachable, now, removed, accepted,
                 exhausted>>
  /\ lastCall' = NoCall

ReplayFailed(p) == pass[p].pc = "await" /\ ReplayFailedWith(p, Replays(p))

\* Variant: the operation is given one more pass.
RetriesExceeded_late(op) == op.retryCount > op.maxRetries

\* The test of the catch branch, on the operation object of the copy.
RetriesExceeded(op) == op.retryCount >= op.maxRetries

\* Variant: the catch branch leaves the loop; setSyncing(false) follows.
CheckRetries_break(p) ==
  /\ pass[p].pc = "catch"
  /\ isSyncing' = FALSE
  /\ lastSyncAttempt' = lastSyncAttempt
  /\ pass' = [pass EXCEPT ![p] = IdlePass]
  /\ log' = <<>>
  /\ UNCHANGED <<isOnline, syncQueue, syncErrors, syncInterval, timers,
                 isInitialized, pendingEvents, pendingTimeouts, envVars,
                 nextId, removed, accepted, exhausted>>
  /\ lastCall' = NoCall

\* if (operation.retryCount >= operation.maxRetries) removeFromQueue(...)
CheckRetries(p) ==
  /\ pass[p].pc = "catch"
  /\ LET op == pass[p].ops[pass[p].idx] IN
     IF RetriesExceeded(op)
     THEN /\ syncQueue' = removeFromQueue(syncQueue, op.id)
          /\ removed' = removed \cup {op.id}
          /\ exhausted' = exhausted \cup {op.id}
          /\ pass' = [pass EXCEPT ![p].pc = "evict"]
     ELSE /\ pass' = [pass EXCEPT ![p].pc = "next", ![p].idx = pass[p].idx + 1]
          /\ UNCHANGED <<syncQueue, removed, exhausted>>
  /\ UNCHANGED <<isOnline, isSyncing, lastSyncAttempt, syncErrors,
                 syncInterval, timers, isInitialized, pendingEvents,
                 pendingTimeouts, envVars, nextId, accepted, log>>
  /\ lastCall' = NoCall

\* The message of addSyncError: entity, type and the attempt count it names.
SyncErrorMessage(op) ==
  [entity |-> op.entity, type |-> op.type, attempts |-> op.maxRetries]

\* addSyncError after the eviction.
AddError(p) ==
  /\ pass[p].pc = "evict"
  /\ syncErrors' = addSyncError(syncErrors, SyncErrorMessage(pass[p].ops[pass[p].idx]))
  /\ pass' = [pass EXCEPT ![p].pc = "next", ![p].idx = pass[p].idx + 1]
  /\ UNCHANGED <<isOnline, syncQueue, isSyncing, lastSyncAttempt, syncInterval,
                 timers, isInitialized, pendingEvents, pendingTimeouts,
                 envVars, nextId, removed, accepted, exhausted, log>>
  /\ lastCall' = NoCall

\* ------------------------------------------------ triggers of performSync
\* setOnlineStatus: the flag, and the delayed triggerSync event when the new
\* value is true and the queue is not empty.
SchedulesEvent(value) == value /\ Len(syncQueue) > 0

setOnlineStatus(value) ==
  /\ SchedulesEvent(value) => pendingEvents < MaxPending
  /\ isOnline' = value
  /\ pendingEvents' = IF SchedulesEvent(value) THEN pendingEvents + 1
                      ELSE pendingEvents

\* startPeriodicSync: a new interval unless the service holds one.
startPeriodicSync ==
  IF syncInterval THEN UNCHANGED <<syncInterval, timers>>
  ELSE /\ syncInterval' = TRUE
       /\ timers' = timers + 1

\* Variant: the handle is forgotten and the interval is not cleared.
stopPeriodicSync_dropHandle ==
  /\ syncInterval' = FALSE
  /\ timers' = timers

\* stopPeriodicSync: the interval the service holds is cleared.
stopPeriodicSync ==
  IF syncInterval
  THEN /\ syncInterval' = FALSE
       /\ timers' = timers - 1
  ELSE UNCHANGED <<syncInterval, timers>>

\* initialize: listeners, setOnlineStatus(navigator.onLine), the timer.
Initialize ==
  /\ Quiescent
  /\ IF isInitialized
     THEN UNCHANGED <<isOnline, pendingEvents, syncInterval, timers,
                      isInitialized>>
     ELSE /\ setOnlineStatus(navOnline)
          /\ IF navOnline THEN startPeriodicSync
             ELSE UNCHANGED <<syncInterval, timers>>
          /\ isInitialized' = TRUE
  /\ UNCHANGED <<syncQueue, isSyncing, lastSyncAttempt, syncErrors,
                 pendingTimeouts, pass, envVars, nextId, removed, accepted,
                 exhausted, log>>
  /\ lastCall' = NoCall

\* destroy: listeners removed, timer stopped.
Destroy ==
  /\ Quiescent
  /\ stopPeriodicSync
  /\ isInitialized' = FALSE
  /\ UNCHANGED <<storeVars, pendingEvents, pendingTimeouts, pass, envVars,
                 nextId, removed, accepted, exhausted, log>>
  /\ lastCall' = NoCall

\* The platform's online event; handleOnline when the listener is registered.
OnlineEvent ==
  /\ Quiescent
  /\ ~navOnline
  /\ navOnline' = TRUE
  /\ IF isInitialized
     THEN /\ setOnlineStatus(TRUE)
          /\ startPeriodicSync
          /\ performSync(TRUE)
     ELSE /\ UNCHANGED <<isOnline, pendingEvents, syncInterval, timers,
                         isSyncing, lastSyncAttempt, pass, log>>
          /\ lastCall' = NoCall
  /\ UNCHANGED <<syncQueue, syncErrors, isInitialized, pendingTimeouts,
                 localData, remoteData, reachable, now, nextId, removed,
                 accepted, exhausted>>

\* Variant: handleOffline asks the remote first and stays online when the
\* host still answers.
OfflineEvent_probing ==
  /\ Quiescent
  /\ navOnline
  /\ navOnline' = FALSE
  /\ IF isInitialized /\ ~reachable
     THEN /\ setOnlineStatus(FALSE)
          /\ stopPeriodicSync
     ELSE UNCHANGED <<isOnline, pendingEvents, syncInterval, timers>>
  /\ UNCHANGED <<syncQueue, isSyncing, lastSyncAttempt, syncErrors,
                 isInitialized, pendingTimeouts, pass, localData, remoteData,
                 reachable, now, nextId, removed, accepted, exhausted, log>>
  /\ lastCall' = NoCall

\* The platform's offline event; handleOffline when the listener is registered.
OfflineEvent ==
  /\ Quiescent
  /\ navOnline
  /\ navOnline' = FALSE
  /\ IF isInitialized
     THEN /\ setOnlineStatus(FALSE)
          /\ stopPeriodicSync
     ELSE UNCHANGED <<isOnline, pendingEvents, syncInterval, timers>>
  /\ UNCHANGED <<syncQueue, isSyncing, lastSyncAttempt, syncErrors,
                 isInitialized, pendingTimeouts, pass, localData, remoteData,
                 reachable, now, nextId, removed, accepted, exhausted, log>>
  /\ lastCall' = NoCall

\* The 30 s interval fires.
PeriodicTick ==
  /\ Quiescent
  /\ timers > 0
  /\ performSync(isOnline)
  /\ UNCHANGED <<isOnline, syncQueue, syncErrors, syncInterval, timers,
                 isInitialized, pendingEvents, pendingTimeouts, envVars,
                 nextId, removed, accepted, exhausted>>

\* The delayed triggerSync event is dispatched; performSync listens while the
\* service is initialized.
TriggerSyncEvent ==
  /\ Quiescent
  /\ pendingEvents > 0
  /\ pendingEvents' = pendingEvents - 1
  /\ IF isInitialized THEN performSync(isOnline)
     ELSE /\ UNCHANGED <<isSyncing, lastSyncAttempt, pass, log>>
          /\ lastCall' = NoCall
  /\ UNCHANGED <<isOnline, syncQueue, syncErrors, syncInterval, timers,
                 isInitialized, pendingTimeouts, envVars, nextId, removed,
                 accepted, exhausted>>

\* triggerSync(): the manual request.
TriggerSync ==
  /\ Quiescent
  /\ performSync(isOnline)
  /\ UNCHANGED <<isOnline, syncQueue, syncErrors, syncInterval, timers,
                 isInitialized, pendingEvents, pendingTimeouts, envVars,
                 nextId, removed, accepted, exhausted>>

\* queueOperation: addToQueue, and a delayed performSync when online.
QueueOperation(operation) ==
  /\ Quiescent
  /\ nextId <= MaxOps
  /\ isOnline => pendingTimeouts < MaxPending
  /\ syncQueue' = addToQueue(syncQueue, operation, nextId)
  /\ nextId' = nextId + 1
  /\ pendingTimeouts' = IF isOnline THEN pendingTimeouts + 1 ELSE pendingTimeouts
  /\ UNCHANGED <<isOnline, isSyncing, lastSyncAttempt, syncErrors,
                 syncInterval, timers, isInitialized, pendingEvents, pass,
                 envVars, removed, accepted, exhausted, log>>
  /\ lastCall' = NoCall

\* The delayed performSync of queueOperation fires.
QueueTimeout ==
  /\ Quiescent
  /\ pendingTimeouts > 0
  /\ pendingTimeouts' = pendingTimeouts - 1
  /\ performSync(isOnline)
  /\ UNCHANGED <<isOnline, syncQueue, syncErrors, syncInterval, timers,
                 isInitialized, pendingEvents, envVars, nextId, removed,
                 accepted, exhausted>>

\* ------------------------------------------------- calls through the router
\* A caller's create / update / delete; observed says whether the way the
\* call ended is kept in lastCall.
RouterCall(name, key, observed) ==
  /\ Quiescent
  /\ \E r \in RouterMutate(Verb(name), key, navOnline, remoteData, localData) :
       /\ nextId + Len(r.enq) <= MaxOps + 1
       /\ syncQueue' = Enqueue(syncQueue, r.enq, nextId)
       /\ nextId' = nextId + Len(r.enq)
       /\ remoteData' = r.remote
       /\ localData' = r.local
       /\ lastCall' = IF observed
                      THEN [name |-> name, key |-> key, path |-> r.path,
                            why |-> r.why, raised |-> r.raised,
                            result |-> r.result]
                      ELSE NoCall
  /\ UNCHANGED <<isOnline, isSyncing, lastSyncAttempt, syncErrors, serviceVars,
                 navOnline, reachable, now, removed, accepted, exhausted, log>>

\* A caller's read.
RouterRead ==
  /\ Quiescent
  /\ \E r \in RouterGet(navOnline, remoteData, localData) :
       lastCall' = [name |-> "get", key |-> NoKey, path |-> r.path,
                    why |-> r.why, raised |-> r.raised, result |-> r.value]
  /\ UNCHANGED <<storeVars, serviceVars, envVars, nextId, removed, accepted,
                 exhausted, log>>

PassStep ==
  \E p \in 1 .. MaxPasses :
    \/ ClearErrors(p)
    \/ BeginReplay(p)
    \/ EndPass(p)
    \/ ReplaySucceeded(p)
    \/ ReplayFailed(p)
    \/ CheckRetries(p)
    \/ AddError(p)

Next ==
  \/ Initialize
  \/ Destroy
  \/ OnlineEvent
  \/ OfflineEvent
  \/ PeriodicTick
  \/ TriggerSyncEvent
  \/ TriggerSync
  \/ QueueTimeout
  \/ \E t \in QueueTemplates : QueueOperation(t)
  \/ \E n \in CallerVerbs : \E k \in IdArgs(n) : RouterCall(n, k, FALSE)
  \/ PassStep

\* The sync engine with its callers.
Spec == Init /\ [][Next]_vars

NextRouter ==
  \/ OnlineEvent
  \/ OfflineEvent
  \/ \E n \in RouterSpecVerbs : \E k \in IdArgs(n) : RouterCall(n, k, TRUE)
  \/ RouterRead

\* The router alone: callers and connectivity changes, no reconciliation.
SpecRouter == Init /\ [][NextRouter]_vars

NextVerbs ==
  \/ OnlineEvent
  \/ OfflineEvent
  \/ \E v \in RouterVerbs : \E k \in IdArgs(v.name) :
       RouterCall(v.name, k, FALSE)

\* Callers using every mutating verb the router exposes.
SpecVerbs == Init /\ [][NextVerbs]_vars

NextTriggers ==
  \/ Initialize
  \/ Destroy
  \/ OnlineEvent
  \/ OfflineEvent
  \/ PeriodicTick
  \/ TriggerSyncEvent
  \/ TriggerSync
  \/ QueueTimeout
  \/ \E t \in TriggerTemplates : QueueOperation(t)
  \/ PassStep

\* Every trigger of performSync, with two kinds of queued operation.
SpecTriggers == Init /\ [][NextTriggers]_vars

NextPass ==
  \/ OnlineEvent
  \/ OfflineEvent
  \/ QueueTimeout
  \/ \E t \in QueueTemplates : QueueOperation(t)
  \/ \E n \in CallerVerbs : \E k \in IdArgs(n) : RouterCall(n, k, FALSE)
  \/ PassStep

\* The reconciliation pass with its callers, started by queueOperation's
\* delayed performSync only.
SpecPass == Init /\ [][NextPass]_vars

\* ------------------------------------------------------------ persistence
\* The fields of the store the persist middleware writes. The model has no
\* offlineData field.
\* Variant: the queue is left out of what is written.
partialize_errorsOnly(state) == [syncErrors |-> state.syncErrors]

\* Variant: isSyncing is written too.
partialize_withSyncing(state) ==
  [syncQueue |-> state.syncQueue, syncErrors |-> state.syncErrors,
   isSyncing |-> state.isSyncing]

partialize(state) ==
  [syncQueue |-> state.syncQueue, syncErrors |-> state.syncErrors]

\* JSON text of one operation and of a queue: the values in field order.
StringifyOperation(o) ==
  <<o.id, o.timestamp, o.type, o.entity, o.key, o.wrapped, o.retryCount,
    o.maxRetries>>

ParseOperation(t) ==
  [id |-> t[1], timestamp |-> t[2], type |-> t[3], entity |-> t[4],
   key |-> t[5], wrapped |-> t[6], retryCount |-> t[7], maxRetries |-> t[8]]

Stringify(part) ==
  [f \in DOMAIN part |->
     IF f = "syncQueue"
     THEN [i \in 1 .. Len(part[f]) |-> StringifyOperation(part[f][i])]
     ELSE part[f]]

Parse(text) ==
  [f \in DOMAIN text |->
     IF f = "syncQueue"
     THEN [i \in 1 .. Len(text[f]) |-> ParseOperation(text[f][i])]
     ELSE text[f]]

\* What the storage holds: the middleware writes after every set.
Storage ==
  Stringify(partialize([isOnline |-> isOnline, syncQueue |-> syncQueue,
                        isSyncing |-> isSyncing, syncErrors |-> syncErrors,
                        lastSyncAttempt |-> lastSyncAttempt]))

\* The state the store is created with.
InitialState(nav) ==
  [isOnline |-> nav, syncQueue |-> <<>>, isSyncing |-> FALSE,
   syncErrors |-> <<>>, lastSyncAttempt |-> NoAttempt]

\* The middleware's merge: the persisted fields over the initial state.
Rehydrate(text, nav) ==
  LET persisted == Parse(text)
      current == InitialState(nav)
  IN [f \in DOMAIN current |->
        IF f \in DOMAIN persisted THEN persisted[f] ELSE current[f]]

\* The application is started again: the store is created from the storage,
\* the service is a new instance, timers and a running pass are gone.
Reload ==
  /\ LET state == Rehydrate(Storage, navOnline) IN
       /\ isOnline' = state.isOnline
       /\ syncQueue' = state.syncQueue
       /\ isSyncing' = state.isSyncing
       /\ lastSyncAttempt' = state.lastSyncAttempt
       /\ syncErrors' = state.syncErrors
  /\ syncInterval' = FALSE
  /\ timers' = 0
  /\ isInitialized' = FALSE
  /\ pendingEvents' = 0
  /\ pendingTimeouts' = 0
  /\ pass' = [p \in 1 .. MaxPasses |-> IdlePass]
  /\ log' = <<>>
  /\ lastCall' = [NoCall EXCEPT !.name = "restart"]
  /\ UNCHANGED <<envVars, nextId, removed, accepted, exhausted>>

\* The application is closed between two handlers and started again.
Restart == Quiescent /\ Reload

\* The process dies at any point, in the middle of a handler too, and the
\* application is started again.
Crash ==
  /\ \A i \in 1 .. Len(syncQueue) : syncQueue[i].retryCount <= MaxRetryCount
  /\ Reload

\* Time passes.
Tick ==
  /\ now < MaxClock
  /\ now' = now + 1
  /\ UNCHANGED <<storeVars, serviceVars, navOnline, localData, remoteData,
                 reachable, nextId, removed, accepted, exhausted, log>>
  /\ lastCall' = NoCall

\* What callers of the persistence specification pass to queueOperation: an
\* operation whose replay always fails and one whose replay always succeeds.
PersistTemplates ==
  { [entity |-> "movement", type |-> "CREATE", key |-> NoKey,
     wrapped |-> FALSE, maxRetries |-> 0],
    [entity |-> "order", type |-> "UPDATE", key |-> 1, wrapped |-> FALSE,
     maxRetries |-> 0] }

NextPersist ==
  \/ Tick
  \/ Restart
  \/ OnlineEvent
  \/ OfflineEvent
  \/ QueueTimeout
  \/ TriggerSync
  \/ \E t \in PersistTemplates : QueueOperation(t)
  \/ PassStep

\* The queue over time and across restarts.
SpecPersist == Init /\ [][NextPersist]_vars

\* ------------------------------------------------------------ sync status
\* Variant: hasErrors tells whether operations are waiting.
getSyncStatus_queueAsErrors(state) ==
  [isOnline |-> state.isOnline, isSyncing |-> state.isSyncing,
   queueLength |-> Len(state.syncQueue),
   hasErrors |-> Len(state.syncQueue) > 0, errors |-> state.syncErrors,
   lastSyncAttempt |-> state.lastSyncAttempt]

\* getSyncStatus: the fields of the store, the queue as its length.
getSyncStatus(state) ==
  [isOnline |-> state.isOnline, isSyncing |-> state.isSyncing,
   queueLength |-> Len(state.syncQueue),
   hasErrors |-> Len(state.syncErrors) > 0, errors |-> state.syncErrors,
   lastSyncAttempt |-> state.lastSyncAttempt]

\* useOfflineStore.getState(), the data fields.
getState ==
  [isOnline |-> isOnline, syncQueue |-> syncQueue, isSyncing |-> isSyncing,
   syncErrors |-> syncErrors, lastSyncAttempt |-> lastSyncAttempt]

\* A caller polls the status; it can do so while a pass waits for an answer.
GetSyncStatus ==
  /\ Quiescent
  /\ lastCall' = [NoCall EXCEPT !.name = "getSyncStatus",
                                !.result = getSyncStatus(getState)]
  /\ UNCHANGED <<storeVars, serviceVars, envVars, nextId, removed, accepted,
                 exhausted, log>>

\* What callers of the status specification pass to queueOperation: an
\* operation whose replay always fails and is given up at once, and one
\* whose replay always succeeds.
StatusTemplates ==
  { [entity |-> "movement", type |-> "CREATE", key |-> 1, wrapped |-> FALSE,
     maxRetries |-> 1],
    [entity |-> "order", type |-> "UPDATE", key |-> 1, wrapped |-> FALSE,
     maxRetries |-> 0] }

NextStatus ==
  \/ Tick
  \/ OnlineEvent
  \/ OfflineEvent
  \/ QueueTimeout
  \/ \E t \in StatusTemplates : QueueOperation(t)
  \/ PassStep
  \/ GetSyncStatus

\* The status read next to the engine it reports on.
SpecStatus == Init /\ [][NextStatus]_vars

NextCrash ==
  \/ Crash
  \/ OnlineEvent
  \/ OfflineEvent
  \/ QueueTimeout
  \/ TriggerSync
  \/ \E t \in StatusTemplates : QueueOperation(t)
  \/ PassStep

\* The engine with crashes at any point.
SpecCrash == Init /\ [][NextCrash]_vars

\* ------------------------------------------------- the store actions alone
\* Queues the store can hold: operations with distinct ids in the order of
\* their ids, each retried some number of times.
StoreQueues ==
  UNION { { [i \in 1 .. n |->
               [NewOperation(t[i], i) EXCEPT !.retryCount = c[i]]] :
            t \in [1 .. n -> StatusTemplates], c \in [1 .. n -> 0 .. 1] } :
          n \in 0 .. MaxOps }

InitStore ==
  /\ now = 0
  /\ navOnline \in BOOLEAN
  /\ isOnline = navOnline
  /\ syncQueue \in StoreQueues
  /\ isSyncing = FALSE
  /\ lastSyncAttempt = NoAttempt
  /\ syncErrors = <<>>
  /\ syncInterval = FALSE
  /\ timers = 0
  /\ isInitialized = FALSE
  /\ pendingEvents = 0
  /\ pendingTimeouts = 0
  /\ pass = [p \in 1 .. MaxPasses |-> IdlePass]
  /\ localData = {}
  /\ remoteData = {}
  /\ reachable = TRUE
  /\ nextId = Len(syncQueue) + 1
  /\ removed = {}
  /\ accepted = {}
  /\ exhausted = {}
  /\ log = <<>>
  /\ lastCall = NoCall

\* removeFromQueue called with any id, queued or not.
CallRemoveFromQueue(id) ==
  /\ syncQueue' = removeFromQueue(syncQueue, id)
  /\ lastCall' = [NoCall EXCEPT !.name = "removeFromQueue", !.key = id]
  /\ UNCHANGED <<isOnline, isSyncing, syncErrors, lastSyncAttempt, serviceVars,
                 envVars, nextId, removed, accepted, exhausted, log>>

\* incrementRetryCount called with any id, queued or not.
CallIncrementRetryCount(id) ==
  /\ \A i \in 1 .. Len(syncQueue) : syncQueue[i].retryCount <= MaxRetryCount
  /\ syncQueue' = incrementRetryCount(syncQueue, id)
  /\ lastCall' = [NoCall EXCEPT !.name = "incrementRetryCount", !.key = id]
  /\ UNCHANGED <<isOnline, isSyncing, syncErrors, lastSyncAttempt, serviceVars,
                 envVars, nextId, removed, accepted, exhausted, log>>

NextStore ==
  \/ \E id \in 1 .. MaxOps + 1 : CallRemoveFromQueue(id)
  \/ \E id \in 1 .. MaxOps + 1 : CallIncrementRetryCount(id)

\* The two store actions applied to any queue with any id.
SpecStore == InitStore /\ [][NextStore]_vars

\* The remote host becomes unreachable, or reachable again, while the
\* platform's network state stays as it is.
RemoteChange ==
  /\ Quiescent
  /\ reachable' = ~reachable
  /\ UNCHANGED <<storeVars, serviceVars, navOnline, localData, remoteData,
                 now, nextId, removed, accepted, exhausted, log>>
  /\ lastCall' = NoCall

\* What callers of the monitor specification pass to queueOperation: an
\* operation whose replay makes no remote request.
MonitorTemplates ==
  { [entity |-> "user", type |-> "UPDATE", key |-> 1, wrapped |-> FALSE,
     maxRetries |-> 1] }

NextMonitor ==
  \/ Initialize
  \/ Destroy
  \/ OnlineEvent
  \/ OfflineEvent
  \/ RemoteChange
  \/ PeriodicTick
  \/ TriggerSyncEvent
  \/ TriggerSync
  \/ QueueTimeout
  \/ \E t \in MonitorTemplates : QueueOperation(t)
  \/ PassStep

\* The connectivity handlers and every trigger, with a remote host that
\* comes and goes independently of the platform's network state.
SpecMonitor == Init /\ [][NextMonitor]_vars

\* The queues the service can find pending when it is initialized offline.
DrainTemplates ==
  { addToSyncQueue(<<"product", "create">>, NoKey),
    addToSyncQueue(<<"product", "delete">>, 1),
    [entity |-> "movement", type |-> "CREATE", key |-> 1, wrapped |-> FALSE,
     maxRetries |-> 1],
    [entity |-> "order", type |-> "UPDATE", key |-> 1, wrapped |-> FALSE,
     maxRetries |-> 0] }

\* No more creations than the stores have room for.
DrainQueues ==
  { Enqueue(<<>>, q, 1) :
    q \in { q \in UNION { [1 .. n -> DrainTemplates] : n \in 1 .. MaxOps } :
            Cardinality({i \in DOMAIN q : q[i].type = "CREATE" /\ q[i].wrapped})
              <= MaxKey } }

\* initialize() has run while offline, with a pending queue.
InitDrain ==
  /\ now = 0
  /\ navOnline = FALSE
  /\ isOnline = FALSE
  /\ syncQueue \in DrainQueues
  /\ isSyncing = FALSE
  /\ lastSyncAttempt = NoAttempt
  /\ syncErrors = <<>>
  /\ syncInterval = FALSE
  /\ timers = 0
  /\ isInitialized = TRUE
  /\ pendingEvents = 0
  /\ pendingTimeouts = 0
  /\ pass = [p \in 1 .. MaxPasses |-> IdlePass]
  /\ localData = {}
  /\ remoteData = {}
  /\ reachable = TRUE
  /\ nextId = Len(syncQueue) + 1
  /\ removed = {}
  /\ accepted = {}
  /\ exhausted = {}
  /\ log = <<>>
  /\ lastCall = NoCall

\* The ways a replay can end when the remote is reached and accepts every
\* request.
Accepting(p) == {r \in Replays(p) : ~r.refused}

PassStepAccepting ==
  \E p \in 1 .. MaxPasses :
    \/ ClearErrors(p)
    \/ BeginReplay(p)
    \/ EndPass(p)
    \/ pass[p].pc = "await" /\ ReplaySucceededWith(p, Accepting(p))
    \/ pass[p].pc = "await" /\ ReplayFailedWith(p, Accepting(p))
    \/ CheckRetries(p)
    \/ AddError(p)

NextDrain ==
  \/ OnlineEvent
  \/ PeriodicTick
  \/ TriggerSyncEvent
  \/ TriggerSync
  \/ PassStepAccepting

\* The service from the moment connectivity comes back for good, the remote
\* accepting every replay; timers, events and awaited calls are fair.
SpecDrain ==
  /\ InitDrain
  /\ [][NextDrain]_vars
  /\ WF_vars(PeriodicTick)
  /\ WF_vars(TriggerSyncEvent)
  /\ WF_vars(PassStepAccepting)

NextLoop ==
  \/ OnlineEvent
  \/ OfflineEvent
  \/ TriggerSync
  \/ PassStep

\* Passes over a queue filled beforehand, with any answer to each replay;
\* every awaited call returns or fails in the end and the loop goes on
\* after it.
SpecLoop == InitDrain /\ [][NextLoop]_vars /\ WF_vars(PassStep)

\* ------------------------------------------------------------------ claims
Active == {p \in 1 .. MaxPasses : pass[p].pc # "idle"}
HttpErrors == {"http401", "http404", "http500"}
IsMutation(call) == call.name \notin {"-", "get", "performSync"}

\* C1: an operation with maxRetries = N is out of the queue once its N-th
\* failed replay has been handled: outside the catch branch no queued
\* operation has failed N times (retryCount counts its failed replays).
C1_RetryCeiling ==
  (\A p \in 1 .. MaxPasses : pass[p].pc # "catch") =>
    \A i \in 1 .. Len(syncQueue) :
      syncQueue[i].retryCount < syncQueue[i].maxRetries

\* C2: in every state, with each store mutation one step, every queued
\* operation has retryCount <= maxRetries.
C2_RetryCountBounded ==
  \A i \in 1 .. Len(syncQueue) :
    syncQueue[i].retryCount <= syncQueue[i].maxRetries

\* C3: an operation is removed from the queue if and only if the remote
\* accepted its replay or its retries are exhausted.
C3_RemovedIffSettled ==
  /\ removed \subseteq (accepted \cup exhausted)
  /\ Quiescent => (accepted \cup exhausted) \subseteq removed

\* C4 as stated: every create, update or delete that takes the fallback
\* (offline, or a network-classified error) applies the local mutation,
\* raises nothing and appends exactly one operation with retryCount 0.
C4_FallbackAlwaysSucceeds ==
  [][(lastCall'.path = "fallback" /\ IsMutation(lastCall')) =>
       /\ lastCall'.raised = "none"
       /\ Len(syncQueue') = Len(syncQueue) + 1
       /\ syncQueue'[Len(syncQueue')].retryCount = 0]_vars

\* C4 (amended): a create, update or delete that takes the fallback raises
\* neither the transport error nor an API error; when the local command
\* succeeds its mutation is applied, the remote is untouched and exactly one
\* operation with a new id and retryCount 0 is appended behind the others;
\* when the local command fails nothing is enqueued and no store changes.
C4_OfflineFallback ==
  [][(lastCall'.path = "fallback" /\ IsMutation(lastCall')) =>
       /\ lastCall'.raised \in {"none", "local"}
       /\ remoteData' = remoteData
       /\ lastCall'.raised = "none" =>
            /\ localData' = Apply(localData, Verb(lastCall'.name).effect,
                                  Verb(lastCall'.name).entity, lastCall'.result)
            /\ Len(syncQueue') = Len(syncQueue) + 1
            /\ SubSeq(syncQueue', 1, Len(syncQueue)) = syncQueue
            /\ syncQueue'[Len(syncQueue')].retryCount = 0
            /\ syncQueue'[Len(syncQueue')].id \notin QueueIds(syncQueue)
       /\ lastCall'.raised = "local" =>
            UNCHANGED <<syncQueue, localData>>]_vars

C4_Witness ==
  /\ lastCall.path = "fallback"
  /\ lastCall.why = "timeout"
  /\ lastCall.raised = "none"
  /\ lastCall.name = "products.create"
  /\ Len(syncQueue) > 0
  /\ <<"product", lastCall.result>> \in localData

\* C5: a read, create, update or delete answered by the remote with an HTTP
\* error response raises an API error to the caller, runs no local command
\* and leaves the queue as it was.
C5_ApplicationErrorRaised ==
  [][lastCall'.why \in HttpErrors =>
       /\ lastCall'.raised = "api"
       /\ lastCall'.path = "remote"
       /\ UNCHANGED <<syncQueue, localData, remoteData>>]_vars

C5_Witness ==
  /\ lastCall.name = "get"
  /\ lastCall.why = "http500"
  /\ lastCall.raised = "api"

\* C6: an online create, update or delete that succeeds remotely keeps the
\* Local Data Store equal to the Remote Data Service.
C6_Mirroring ==
  [][(/\ lastCall'.path = "remote"
      /\ lastCall'.raised = "none"
      /\ IsMutation(lastCall')
      /\ localData = remoteData) => localData' = remoteData']_vars

\* C7: of two operations on the same entity that are both in the copy of a
\* running pass, the one enqueued first has finished its replay before the
\* replay of the other begins.
C7_Ordering ==
  \A p \in Active :
    \A i, j \in 1 .. Len(pass[p].ops) :
      LET A == pass[p].ops[i]
          B == pass[p].ops[j]
      IN (A.id < B.id /\ A.entity = B.entity) =>
           \A b \in 1 .. Len(log) :
             log[b] = <<"begin", B.id>> =>
               \E a \in 1 .. b - 1 : log[a] = <<"end", A.id>>

C7_Witness ==
  \E p \in Active :
    /\ Len(pass[p].ops) = 2
    /\ pass[p].ops[1].entity = "order" /\ pass[p].ops[1].type = "CREATE"
    /\ pass[p].ops[2].entity = "order" /\ pass[p].ops[2].type = "DELETE"
    /\ pass[p].idx = 2
    /\ pass[p].pc = "await"

\* C8: an operation that was removed from the queue is never in the queue
\* again and no replay of it begins afterwards.
C8_NoReappearance ==
  /\ removed \cap QueueIds(syncQueue) = {}
  /\ \A p \in Active :
       pass[p].pc = "await" => pass[p].ops[pass[p].idx].id \notin removed

C8_Witness ==
  /\ removed # {}
  /\ \E p \in Active : pass[p].pc = "await" /\ pass[p].idx = 1

\* C9: a pass starts only when, at the guard, isOnline is true, no pass is
\* running and the queue is not empty.
C9_StartGuard ==
  [][((Active' \ Active # {}) \/ (~isSyncing /\ isSyncing')) =>
       /\ isOnline'
       /\ ~isSyncing
       /\ Active = {}
       /\ Len(syncQueue) > 0]_vars

C9_Witness ==
  /\ lastCall.name = "performSync"
  /\ lastCall.path = "started"
  /\ isSyncing

C11_SnapshotPass ==
  /\ [](\A p \in Active : \A e \in 1 .. Len(log) :
          log[e][2] \in QueueIds(pass[p].ops))
  /\ [][\A i \in 1 .. Len(syncQueue) :
          (\A p \in Active : syncQueue[i].id \notin QueueIds(pass[p].ops)) =>
            \E j \in 1 .. Len(syncQueue') :
              /\ syncQueue'[j] = syncQueue[i]
              /\ \A k \in 1 .. j - 1 :
                   \E m \in 1 .. i - 1 : syncQueue[m].id = syncQueue'[k].id]_vars

C11_Witness ==
  \E p \in Active :
    /\ pass[p].pc = "next"
    /\ pass[p].idx > Len(pass[p].ops)
    /\ removed \cap QueueIds(pass[p].ops) # {}
    /\ \E i \in 1 .. Len(syncQueue) :
         syncQueue[i].wrapped /\ syncQueue[i].id \notin QueueIds(pass[p].ops)

\* The ids of the replays the running pass has begun, in order.
BegunIds ==
  LET b == SelectSeq(log, LAMBDA e : e[1] = "begin")
  IN [i \in 1 .. Len(b) |-> b[i][2]]

\* C12: the replays a pass has begun are a prefix of its copy, each operation
\* once and in order, whatever the earlier replays did; the pass ends only
\* when it has begun the replay of every operation of the copy.
C12_EachOnce ==
  /\ [](\A p \in Active :
          \E n \in 0 .. Len(pass[p].ops) :
            BegunIds = [i \in 1 .. n |-> pass[p].ops[i].id])
  /\ [][\A p \in Active :
          pass'[p].pc = "idle" =>
            BegunIds = [i \in 1 .. Len(pass[p].ops) |-> pass[p].ops[i].id]]_vars

C12_Witness ==
  \E p \in Active :
    /\ Len(pass[p].ops) = 2
    /\ pass[p].pc = "await"
    /\ pass[p].idx = 2
    /\ \E i \in 1 .. Len(syncQueue) :
         syncQueue[i].id = pass[p].ops[1].id /\ syncQueue[i].retryCount = 1

\* The operation of scenario 3: a pending UPDATE of an order, maxRetries 3.
IsScenario3(o) == o.entity = "order" /\ o.type = "UPDATE" /\ o.maxRetries = 3

\* C13: scenario 3. While the remote cannot be reached, the step that ends a
\* replay of the order UPDATE keeps it in the queue with retryCount one
\* higher; it leaves the queue only with retryCount 3, its third failed
\* attempt; and when a pass over that one operation has removed it,
\* syncErrors holds exactly one message, which names it.
C13_Scenario3 ==
  /\ [][\A i \in 1 .. Len(syncQueue) :
          LET o == syncQueue[i] IN
          IsScenario3(o) =>
            /\ (/\ ~navOnline
                /\ \E p \in Active :
                     /\ pass[p].pc = "await"
                     /\ pass[p].ops[pass[p].idx].id = o.id
                     /\ pass'[p].pc # "await") =>
                 \E j \in 1 .. Len(syncQueue') :
                   syncQueue'[j] = [o EXCEPT !.retryCount = o.retryCount + 1]
            /\ o.id \notin QueueIds(syncQueue') => o.retryCount = 3]_vars
  /\ [](\A p \in Active :
          (/\ Len(pass[p].ops) = 1
           /\ IsScenario3(pass[p].ops[1])
           /\ pass[p].pc = "next"
           /\ pass[p].ops[1].id \in removed) =>
            syncErrors = <<SyncErrorMessage(pass[p].ops[1])>>)

\* C14: with the service initialized, connectivity back for good and the
\* remote accepting every replay, a pending queue leads to a running pass
\* and to an empty queue.
C14_Drains ==
  /\ (navOnline /\ Len(syncQueue) > 0) ~> isSyncing
  /\ (navOnline /\ Len(syncQueue) > 0) ~> (Len(syncQueue) = 0)

C14_Witness ==
  /\ navOnline
  /\ Len(syncQueue) = 0
  /\ ~isSyncing
  /\ accepted # {}
  /\ <<"product", 1>> \in remoteData

\* C15: at a platform online event that finds the remote host unreachable
\* (the probe would fail), isOnline does not become true and no pass starts.
C15_ProbeBeforeOnline ==
  [][(~navOnline /\ navOnline' /\ isInitialized /\ ~reachable') =>
       /\ isOnline' => isOnline
       /\ Active' \ Active = {}]_vars

\* C16: the offline event (listener registered) sets isOnline to false and
\* stops the timer in the same step, whether or not the remote host still
\* answers, and starts nothing; while the platform stays offline an engine
\* that is offline stays offline and no trigger starts a pass.
C16_OfflineImmediate ==
  /\ [](isInitialized /\ ~navOnline => ~isOnline /\ ~syncInterval)
  /\ [][/\ (navOnline /\ ~navOnline' /\ isInitialized) =>
           (~isOnline' /\ ~syncInterval' /\ Active' \subseteq Active)
        /\ (~isOnline /\ ~navOnline') =>
           (/\ ~isOnline'
            /\ Active' \subseteq Active
            /\ isSyncing' => isSyncing)]_vars

C16_Witness ==
  /\ isInitialized
  /\ ~navOnline
  /\ ~isOnline
  /\ reachable
  /\ removed # {}
  /\ Len(syncQueue) > 0
  /\ ~isSyncing
  /\ lastCall.name = "performSync"
  /\ lastCall.path = "returned"

\* C17: a step schedules the triggerSync event exactly when it flips isOnline
\* from false to true, and then exactly one.
C17_EventOnFlip ==
  [][IF ~isOnline /\ isOnline'
     THEN pendingEvents' = pendingEvents + 1
     ELSE pendingEvents' <= pendingEvents]_vars

\* C18: a read answered by the remote returns what the remote holds; a read
\* made offline, or whose remote request met a network error, runs the local
\* command and returns what the local store holds (or raises the local
\* command's own error); no read changes the queue or a store.
C18_Read ==
  [][lastCall'.name = "get" =>
       /\ UNCHANGED <<syncQueue, localData, remoteData>>
       /\ ~navOnline => lastCall'.why = "offline"
       /\ lastCall'.why = "-" =>
            /\ lastCall'.path = "remote"
            /\ lastCall'.raised = "none"
            /\ lastCall'.result = remoteData
       /\ lastCall'.why \in {"offline", "noResponse", "timeout"} =>
            /\ lastCall'.path = "fallback"
            /\ lastCall'.raised \in {"none", "local"}
            /\ lastCall'.raised = "none" => lastCall'.result = localData]_vars

C18_Witness ==
  /\ lastCall.name = "get"
  /\ lastCall.why = "noResponse"
  /\ lastCall.raised = "none"
  /\ lastCall.result = localData
  /\ localData # remoteData
  /\ Len(syncQueue) > 0

\* C19: the router enqueues an operation only in a call whose local command
\* has already run and succeeded: at the moment a router-made operation
\* enters the queue the local store shows its mutation (a new record for a
\* create, no record under the key for a delete), and a call whose local
\* command failed leaves the queue as it was.
C19_LocalBeforeEnqueue ==
  [][/\ (Len(syncQueue') > Len(syncQueue) /\ syncQueue'[Len(syncQueue')].wrapped)
          => LET o == syncQueue'[Len(syncQueue')] IN
             /\ lastCall'.path = "fallback"
             /\ lastCall'.raised = "none"
             /\ CASE o.type = "CREATE" ->
                       /\ <<o.entity, lastCall'.result>> \in localData' \ localData
                       /\ localData \subseteq localData'
                  [] o.type = "DELETE" ->
                       /\ <<o.entity, o.key>> \notin localData'
                       /\ localData' \subseteq localData
                  [] OTHER -> localData' = localData
     /\ lastCall'.raised = "local" => syncQueue' = syncQueue]_vars

C19_Witness ==
  /\ lastCall.name = "products.delete"
  /\ lastCall.path = "fallback"
  /\ lastCall.raised = "none"
  /\ Len(syncQueue) = 2
  /\ syncQueue[1].wrapped /\ syncQueue[1].type = "CREATE"
  /\ syncQueue[2].wrapped /\ syncQueue[2].type = "DELETE"
  /\ <<"product", syncQueue[2].key>> \notin localData

\* C20: the timestamps of the queued operations never decrease from head to
\* tail, whatever was enqueued, removed or retried, and the queue the store
\* is created with after a restart is the queue it held before: the same
\* operations, order and retry counts.
C20_FifoPersisted ==
  /\ [](\A i, j \in 1 .. Len(syncQueue) :
          i < j => syncQueue[i].timestamp <= syncQueue[j].timestamp)
  /\ [][lastCall'.name = "restart" => syncQueue' = syncQueue]_vars

C20_Witness ==
  /\ lastCall.name = "restart"
  /\ Len(syncQueue) = 2
  /\ syncQueue[1].retryCount > 0
  /\ syncQueue[1].timestamp < syncQueue[2].timestamp
  /\ removed = {}

\* C21: getSyncStatus changes nothing of the engine, and what it returns is
\* the store at that moment: queueLength the number of queued operations,
\* hasErrors true exactly when syncErrors is non-empty, errors the list
\* syncErrors, and isOnline, isSyncing, lastSyncAttempt the stored values.
C21_StatusPureRead ==
  [][lastCall'.name = "getSyncStatus" =>
       /\ UNCHANGED <<storeVars, serviceVars, envVars>>
       /\ lastCall'.result.queueLength = Len(syncQueue)
       /\ lastCall'.result.hasErrors = (syncErrors # <<>>)
       /\ lastCall'.result.errors = syncErrors
       /\ lastCall'.result.isOnline = isOnline
       /\ lastCall'.result.isSyncing = isSyncing
       /\ lastCall'.result.lastSyncAttempt = lastSyncAttempt]_vars

C21_Witness ==
  /\ lastCall.name = "getSyncStatus"
  /\ lastCall.result.hasErrors
  /\ lastCall.result.queueLength = 0
  /\ lastCall.result.lastSyncAttempt > 0
  /\ ~lastCall.result.isSyncing

\* The operation a pass is working on, and its place in the queue.
Current(p) == pass[p].ops[pass[p].idx]
PlaceOf(id) == CHOOSE i \in 1 .. Len(syncQueue) : syncQueue[i].id = id

C23_PassTerminates ==
  /\ [](isSyncing => Active # {})
  /\ [](\A p \in Active :
          /\ pass[p].idx <= Len(pass[p].ops) + 1
          /\ Cardinality({e \in 1 .. Len(log) : log[e][1] = "begin"})
               <= Len(pass[p].ops))
  /\ isSyncing ~> ~isSyncing

C23_Witness ==
  /\ ~isSyncing
  /\ Active = {}
  /\ lastSyncAttempt # NoAttempt
  /\ exhausted # {}
  /\ removed \ exhausted # {}
  /\ Len(syncErrors) = 1

\* C24: every operation the router has put in the queue has a type among
\* CREATE, UPDATE, DELETE and an entity among product, user, order,
\* supplier, movement, whichever verb of the router made it.
C24_TypesAndEntities ==
  \A i \in 1 .. Len(syncQueue) :
    syncQueue[i].wrapped =>
      syncQueue[i].type \in Types /\ syncQueue[i].entity \in Entities

\* C25: while a pass replays an UPDATE or DELETE that the router queued, the
\* identifier its request is made for (data.id of the queued operation) is
\* the identifier of the router call that queued it.
C25_ReplayFidelity ==
  \A p \in Active :
    (/\ pass[p].pc = "await"
     /\ Current(p).wrapped
     /\ Current(p).type \in {"UPDATE", "DELETE"})
      => DataId(Current(p)) = Current(p).key

\* The messages of the operations of a snapshot that were evicted, in the
\* order of the snapshot (the order in which a pass evicts).
RECURSIVE EvictionMessages(_)
EvictionMessages(ops) ==
  IF ops = <<>> THEN <<>>
  ELSE (IF Head(ops).id \in exhausted THEN <<SyncErrorMessage(Head(ops))>>
        ELSE <<>>) \o EvictionMessages(Tail(ops))

C27_PassNeverEnqueues ==
  [][\A p \in Active :
       (pass[p].pc = "await" /\ pass'[p].pc # "await") =>
         /\ QueueIds(syncQueue') \subseteq QueueIds(syncQueue)
         /\ nextId' = nextId]_vars

\* C28: the store created after a crash, wherever the crash fell, has
\* isSyncing false and the queue and syncErrors of the moment of the crash;
\* so isSyncing is never true without a pass under way to set it back.
C28_CrashRecovery ==
  /\ [](isSyncing => Active # {})
  /\ [][lastCall'.name = "restart" =>
          /\ ~isSyncing'
          /\ syncQueue' = syncQueue
          /\ syncErrors' = syncErrors]_vars

C28_Witness ==
  /\ lastCall.name = "restart"
  /\ ~isSyncing
  /\ Len(syncQueue) = 2
  /\ syncQueue[1].retryCount > syncQueue[1].maxRetries
  /\ Active = {}

\* C29: removeFromQueue(id) takes out the operation with that id and keeps
\* every other operation, with all its fields, in the order they were in;
\* incrementRetryCount(id) adds one to retryCount of the operation with that
\* id and changes no other field and no other operation; with an id that
\* is not queued both leave the queue as it is; neither changes isOnline,
\* isSyncing, lastSyncAttempt or syncErrors.
C29_StoreFrame ==
  [][/\ lastCall'.name = "removeFromQueue" =>
          LET kept == {i \in 1 .. Len(syncQueue) :
                         syncQueue[i].id # lastCall'.key} IN
          /\ Len(syncQueue') = Cardinality(kept)
          /\ \A i \in kept :
               syncQueue'[Cardinality({j \in kept : j <= i})] = syncQueue[i]
          /\ lastCall'.key \notin QueueIds(syncQueue) => syncQueue' = syncQueue
          /\ UNCHANGED <<isOnline, isSyncing, lastSyncAttempt, syncErrors>>
     /\ lastCall'.name = "incrementRetryCount" =>
          /\ Len(syncQueue') = Len(syncQueue)
          /\ \A i \in 1 .. Len(syncQueue) :
               IF syncQueue[i].id = lastCall'.key
               THEN /\ syncQueue'[i].retryCount = syncQueue[i].retryCount + 1
                    /\ [syncQueue'[i] EXCEPT !.retryCount = 0] =
                       [syncQueue[i] EXCEPT !.retryCount = 0]
               ELSE syncQueue'[i] = syncQueue[i]
          /\ lastCall'.key \notin QueueIds(syncQueue) => syncQueue' = syncQueue
          /\ UNCHANGED <<isOnline, isSyncing, lastSyncAttempt,
                         syncErrors>>]_vars

C29_Witness ==
  /\ lastCall.name = "incrementRetryCount"
  /\ lastCall.key = 1
  /\ Len(syncQueue) = 2
  /\ syncQueue[1].id = 1 /\ syncQueue[1].retryCount = 2
  /\ syncQueue[2].id = 2 /\ syncQueue[2].retryCount = 0

\* C30: the platform never holds more than one interval timer for the
\* service, and holds one exactly when the service keeps its handle; a timer
\* is held only while the service is initialized and the platform is
\* online, so none is after an offline event or destroy; a timer appears
\* only at an online event or at an initialize that was not preceded by
\* another, and initialize on an initialized service changes nothing.
C30_OneTimer ==
  /\ [](timers <= 1 /\ (timers = 1 <=> syncInterval))
  /\ [](timers > 0 => isInitialized /\ navOnline)
  /\ [][/\ timers' > timers =>
             \/ ~navOnline /\ navOnline'
             \/ ~isInitialized /\ isInitialized'
        /\ (isInitialized /\ isInitialized' /\ navOnline' = navOnline) =>
             UNCHANGED <<timers, syncInterval>>]_vars

C30_Witness ==
  /\ timers = 1
  /\ syncInterval
  /\ isInitialized
  /\ ~reachable
  /\ removed # {}
  /\ Len(syncQueue) > 0

====
